---- MODULE Spec2Model ----
(***************************************************************************)
(* A model of pyeiscp: the Connection manager (connection.py) and the AVR  *)
(* protocol handler (protocol.py), driven by an asyncio event loop.        *)
(*                                                                         *)
(* The event loop is single threaded: every action below is one callback   *)
(* or one coroutine step run to its next suspension point.  `ready` is the *)
(* loop's FIFO of call_soon callbacks.                                     *)
(***************************************************************************)
EXTENDS Integers, Sequences, FiniteSets, TLC

VARIABLES
    cfg,             \* the arguments of Connection.create
    phase,           \* where Connection.create stands
    retry_interval,  \* conn._retry_interval, a rational <<num, den>>
    closing,         \* conn._closing
    halted,          \* conn._halted
    transport,       \* protocol.transport: 0 is None, else a transport id
    open,            \* the transports whose socket is connected
    paused,          \* the transports whose reading is paused
    loops,           \* the _reconnect coroutines, one record per slot
    ready,           \* the event loop's queue of call_soon callbacks
    buffer,          \* protocol.buffer, a sequence of bytes
    stream,          \* the packets the device sends on the current session
    pos,             \* how many bytes of the session's stream were delivered
    budget,          \* how many packets the device may still put on a session
    sessions,        \* how many sessions the device has sent packets on
    delivered,       \* history: the packets handed over completely, in order
    updates,         \* history: the messages the update observer was given
    aligned,         \* history: every session started on an empty buffer
    failures,        \* history: failed connects since the last _reset_retry_interval
    resumed,         \* history: resume() was the last of halt()/resume()
    severed,         \* history: the last halt() closed an open transport
    wire,            \* history: the packets written to a transport, in order
    sends,           \* history: the send() calls and how each ended for its caller
    discovery_callback, \* discover() was given a discovery_callback
    endpoints,       \* the interfaces whose discovery endpoint is open
    discovered,      \* DiscoveryProtocol.discovered, per interface
    records,         \* history: the identifiers a Connection was created for
    handed,          \* history: how many Connections the discovery observer got
    call,            \* the translator or codec function applied, with its arguments
    ret              \* what that call returned or raised

vars == <<cfg, phase, retry_interval, closing, halted, transport, open, paused,
          loops, ready, buffer, stream, pos, budget, sessions, delivered,
          updates, aligned, failures, resumed, severed, wire, sends,
          discovery_callback, endpoints, discovered, records, handed, call, ret>>

connVars == <<cfg, phase, retry_interval, closing, halted, transport, open,
              paused, loops, ready, failures, resumed, severed>>
dataVars == <<buffer, stream, pos, budget, sessions, delivered, updates, aligned>>
sendVars == <<wire, sends>>
discVars == <<discovery_callback, endpoints, discovered, records, handed>>
codecVars == <<call, ret>>

----------------------------------------------------------------------------
(* Bounds of the model *)

MaxLoops == 2        \* _reconnect coroutines alive at once
MaxTransports == 2   \* sockets connected at once
MaxReady == 1        \* an event is taken while fewer callbacks than this wait
MaxFailures == 3     \* consecutive failed connects
MaxPackets == 3      \* packets the device sends in one run
MaxSessions == 2     \* sessions on which the device sends packets
MaxBad == 1          \* damaged packets among those of one session
MaxSends == 2        \* send() calls in one run
MaxIfaces == 2       \* local interfaces discover() broadcasts on
MaxDevices == 2      \* devices that answer a discovery broadcast

Loops == 1..MaxLoops
Transports == 1..MaxTransports
Ifaces == 1..MaxIfaces
Devices == 1..MaxDevices

----------------------------------------------------------------------------
(* Rationals: retry_interval grows by 1.5, so it is kept as <<num, den>>. *)

Rat(n) == <<n, 1>>
RatLeq(a, b) == a[1] * b[2] <= b[1] * a[2]
RatEq(a, b) == a[1] * b[2] = b[1] * a[2]
\* Python's min(a, b): the first argument when neither is smaller
RatMin(a, b) == IF RatLeq(a, b) THEN a ELSE b
RatMax(a, b) == IF RatLeq(a, b) THEN b ELSE a
RatTimes15(r) == <<3 * r[1], 2 * r[2]>>

RECURSIVE Pow(_, _)
Pow(b, k) == IF k = 0 THEN 1 ELSE b * Pow(b, k - 1)
\* 1.5^k
Pow15(k) == <<Pow(3, k), Pow(2, k)>>

\* The max_retry_interval values create() is called with
MaxRetryIntervals == {Rat(0), Rat(1), Rat(2), Rat(3)}

----------------------------------------------------------------------------
(* Connection.create: the configuration and the state after construction *)

Configs ==
    [auto_reconnect : BOOLEAN,
     auto_connect : BOOLEAN,
     max_retry_interval : MaxRetryIntervals,
     update_callback : BOOLEAN,
     connect_callback : BOOLEAN,
     disconnect_callback : BOOLEAN]

\* A slot that holds no coroutine
NoLoop == [pc |-> "none", interval |-> Rat(0)]

\* No message
NoValue == [kind |-> "none", parts |-> <<>>, num |-> 0]
NoMsg == [zone |-> "", name |-> "", value |-> NoValue]
\* A call_soon entry: the callback, and the transport, coroutine or message it is
\* bound to
Callback(cb, t, msg) == [cb |-> cb, t |-> t, msg |-> msg]

\* conn.* and protocol.* as create() and AVR.__init__ set them
InitConn(c) ==
    /\ cfg = c
    /\ phase = "constructed"
    /\ retry_interval = Rat(1)
    /\ closing = FALSE
    /\ halted = FALSE
    /\ transport = 0
    /\ open = {}
    /\ paused = {}
    /\ loops = [i \in Loops |-> NoLoop]
    /\ ready = <<>>
    /\ buffer = <<>>
    /\ stream = <<>>
    /\ pos = 0
    /\ sessions = 0
    /\ delivered = <<>>
    /\ updates = <<>>
    /\ aligned = TRUE
    /\ failures = 0
    /\ resumed = FALSE
    /\ severed = FALSE

\* No call under way
NoCall == [fn |-> "none", command |-> <<>>,
           arguments |-> [type |-> "None", str |-> <<>>, list |-> <<>>, int |-> 0],
           zone |-> [type |-> "None", str |-> <<>>, list |-> <<>>, int |-> 0]]
NoRet == [err |-> "unset", text |-> <<>>]

\* Nothing sent
InitNoSend == wire = <<>> /\ sends = <<>>
\* No discovery run
InitNoDiscovery ==
    /\ discovery_callback = FALSE
    /\ endpoints = {}
    /\ discovered = [f \in Ifaces |-> <<>>]
    /\ records = <<>>
    /\ handed = 0
\* No translator or codec call
InitNoCall == call = NoCall /\ ret = NoRet

InitIdle == InitNoSend /\ InitNoDiscovery /\ InitNoCall

----------------------------------------------------------------------------
(* Connection._reconnect and the retry interval *)

ResetRetryInterval == Rat(1)

\* A backoff that doubles
DoublingRetryInterval(r, max) == RatMin(max, <<2 * r[1], r[2]>>)
\* A backoff without its cap
UncappedRetryInterval(r, max) == RatTimes15(r)

IncreaseRetryInterval(r, max) == RatMin(max, RatTimes15(r))

\* The top of the while loop: what the coroutine awaits next
ReconnectTop == IF halted THEN "haltpoll" ELSE "connecting"

HasFreeSlot == \E i \in Loops : loops[i].pc = "none"
FreeSlot == CHOOSE i \in Loops :
                /\ loops[i].pc = "none"
                /\ \A j \in Loops : loops[j].pc = "none" => i <= j

\* The event loop polls for I/O and timers, or resumes a task of the user's,
\* between callbacks; the model takes such an event while few callbacks wait
TakesEvent == Len(ready) < MaxReady

\* How many callbacks cb wait in the event loop
Queued(q, cb) == Cardinality({k \in 1..Len(q) : q[k].cb = cb})

\* The coroutines that are under way, and those a transport loss may yet ask for:
\* the user starts another while these leave a slot
LoopsOwed ==
    Cardinality({i \in Loops : loops[i].pc \notin {"none", "established"}})
    + Cardinality(open)
    + Queued(ready, "connection_lost") + Queued(ready, "disconnect_cb")
LoopRoom == LoopsOwed < MaxLoops

\* A coroutine object made by calling conn._reconnect()
Spawn(pc) == [loops EXCEPT ![FreeSlot] = [pc |-> pc, interval |-> Rat(0)]]

PendingLost == {t \in Transports :
                  \E k \in 1..Len(ready) : ready[k].cb = "connection_lost" /\ ready[k].t = t}
FreeTransports == Transports \ (open \cup PendingLost)
NewTransport == CHOOSE t \in FreeTransports : \A u \in FreeTransports : t <= u

\* create(): `if auto_connect: await conn._reconnect()`, then `return conn`
CreateConnect ==
    /\ phase = "constructed"
    /\ IF cfg.auto_connect
       THEN /\ loops' = Spawn(ReconnectTop)
            /\ phase' = "connecting"
       ELSE /\ phase' = "created"
            /\ UNCHANGED loops
    /\ UNCHANGED <<cfg, retry_interval, closing, halted, transport, open, paused,
                   ready, failures, resumed, severed>>
    /\ UNCHANGED dataVars
    /\ UNCHANGED <<sendVars, discVars, codecVars>>

\* The first step of a _reconnect task made by ensure_future
ReconnectStart ==
    /\ ready # <<>>
    /\ Head(ready).cb = "reconnect"
    /\ loops[Head(ready).t].pc = "scheduled"
    /\ loops' = [loops EXCEPT ![Head(ready).t].pc = ReconnectTop]
    /\ ready' = Tail(ready)
    /\ UNCHANGED <<cfg, phase, retry_interval, closing, halted, transport, open,
                   paused, failures, resumed, severed>>
    /\ UNCHANGED dataVars
    /\ UNCHANGED <<sendVars, discVars, codecVars>>

\* A loop that gives up once its backoff sleep is over
GivesUpAfterBackoff(i) ==
    /\ loops[i].pc \in {"backoff", "haltpoll"}
    /\ TakesEvent
    /\ loops' = [loops EXCEPT ![i] = IF loops[i].pc = "backoff" THEN NoLoop
                                     ELSE [loops[i] EXCEPT !.pc = ReconnectTop]]
    /\ UNCHANGED <<cfg, phase, retry_interval, closing, halted, transport, open,
                   paused, ready, failures, resumed, severed>>
    /\ UNCHANGED dataVars
    /\ UNCHANGED <<sendVars, discVars, codecVars>>

\* asyncio.sleep returns (the backoff sleep or the halted poll): `while True` again
SleepWake(i) ==
    /\ loops[i].pc \in {"backoff", "haltpoll"}
    /\ TakesEvent
    /\ loops' = [loops EXCEPT ![i].pc = ReconnectTop]
    /\ UNCHANGED <<cfg, phase, retry_interval, closing, halted, transport, open,
                   paused, ready, failures, resumed, severed>>
    /\ UNCHANGED dataVars
    /\ UNCHANGED <<sendVars, discVars, codecVars>>

\* create_connection raises OSError
ConnectFail(i) ==
    /\ loops[i].pc = "connecting"
    /\ TakesEvent
    /\ failures < MaxFailures
    /\ retry_interval' = IncreaseRetryInterval(retry_interval, cfg.max_retry_interval)
    /\ loops' = [loops EXCEPT ![i].pc = "backoff", ![i].interval = retry_interval']
    /\ failures' = failures + 1
    /\ UNCHANGED <<cfg, phase, closing, halted, transport, open, paused, ready,
                   resumed, severed>>
    /\ UNCHANGED dataVars
    /\ UNCHANGED <<sendVars, discVars, codecVars>>

\* create() awaits the first coroutine, which holds the first slot until it returns
CreateAwaits(i) == phase = "connecting" /\ i = 1

\* create_connection returned: _reset_retry_interval(); return
ReconnectReturn ==
    /\ ready # <<>>
    /\ Head(ready).cb = "reconnect"
    /\ loops[Head(ready).t].pc = "established"
    /\ retry_interval' = ResetRetryInterval
    /\ failures' = 0
    /\ phase' = IF CreateAwaits(Head(ready).t) THEN "created" ELSE phase
    /\ loops' = [loops EXCEPT ![Head(ready).t] = NoLoop]
    /\ ready' = Tail(ready)
    /\ UNCHANGED <<cfg, closing, halted, transport, open, paused, resumed, severed>>
    /\ UNCHANGED dataVars
    /\ UNCHANGED <<sendVars, discVars, codecVars>>

----------------------------------------------------------------------------
(* Bytes and text.  A byte is 0..255; text is a sequence of character     *)
(* codes.  The bytes of the model are ASCII or 255, so bytes.decode()     *)
(* (UTF-8) is the identity on ASCII and raises on a byte of 255.          *)

EOF == 26
CR == 13
LF == 10
Bang == 33
Comma == 44
Plus == 43
Minus == 45
One == 49

Utf8Ok(bytes) == \A k \in 1..Len(bytes) : bytes[k] < 128

\* struct.pack("! I", n): 4 bytes, big-endian
U32(n) == <<(n \div 16777216) % 256, (n \div 65536) % 256, (n \div 256) % 256, n % 256>>
\* struct.unpack("! I", b)
FromU32(b) == b[1] * 16777216 + b[2] * 65536 + b[3] * 256 + b[4]

\* Python's s[a:b] on 0-based a <= b, cut to the length of s
Slice(s, a, b) == SubSeq(s, a + 1, IF b < Len(s) THEN b ELSE Len(s))

Magic == <<73, 83, 67, 80>>   \* "ISCP"

\* eISCPPacket.__init__: the header, then the encoded payload
PackHeader(magic, header_size, data_size) ==
    magic \o U32(header_size) \o U32(data_size) \o <<1>> \o <<0, 0, 0>>

\* eISCPPacket.parse_header on 16 bytes: the asserts and both decode() calls
ParseHeader(b) ==
    LET magic == SubSeq(b, 1, 4)
        header_size == FromU32(SubSeq(b, 5, 8))
        data_size == FromU32(SubSeq(b, 9, 12))
        reserved == SubSeq(b, 14, 16)
    IN [ok |-> /\ Len(b) = 16
               /\ Utf8Ok(magic)
               /\ Utf8Ok(reserved)
               /\ magic = Magic
               /\ header_size = 16,
        data_size |-> data_size]

\* A parse that does not look for the EOF
LenientISCPParse(data) ==
    LET n == Len(data)
        isTerm(k) == k >= 1 /\ (data[k] = LF \/ data[k] = CR)
        eofAt == IF isTerm(n) THEN (IF isTerm(n - 1) THEN n - 2 ELSE n - 1) ELSE n
    IN [ok |-> Slice(data, 0, 2) = <<Bang, One>> /\ eofAt >= 1,
        text |-> IF eofAt >= 3 THEN SubSeq(data, 3, eofAt - 1) ELSE <<>>]

\* ISCPMessage.parse: the text between "!1" and the EOF, which CR, LF or both may follow
ISCPParse(data) ==
    LET n == Len(data)
        isTerm(k) == k >= 1 /\ (data[k] = LF \/ data[k] = CR)
        \* the 1-based place data[eof_offset] names
        eofAt == IF isTerm(n) THEN (IF isTerm(n - 1) THEN n - 2 ELSE n - 1) ELSE n
    IN [ok |-> /\ Slice(data, 0, 2) = <<Bang, One>>
               /\ eofAt >= 1
               /\ data[eofAt] = EOF,
        text |-> IF eofAt >= 3 THEN SubSeq(data, 3, eofAt - 1) ELSE <<>>]

----------------------------------------------------------------------------
(* The command registry (pyeiscp.commands): per zone, in the order the    *)
(* zones are stored, the opcodes with their name and value table.         *)

PWR == <<80, 87, 82>>
MVL == <<77, 86, 76>>
ZPW == <<90, 80, 87>>

COMMANDS ==
    << [zone |-> "main",
        cmds |-> { [op |-> PWR, name |-> "system-power",
                    values |-> { [wire |-> <<48, 48>>,           \* "00": "standby,off"
                                  name |-> <<115, 98, 121, 44, 111, 102, 102>>],
                                 [wire |-> <<48, 49>>,           \* "01": "on"
                                  name |-> <<111, 110>>] }],
                   [op |-> MVL, name |-> "master-volume",
                    values |-> { [wire |-> <<85, 80>>,           \* "UP": "level-up"
                                  name |-> <<117, 112>>] }] }],
       [zone |-> "zone2",
        cmds |-> { [op |-> ZPW, name |-> "power",
                    values |-> { [wire |-> <<48, 49>>,           \* "01": "on"
                                  name |-> <<111, 110>>] }] }] >>

\* str.split(","): the parts between the commas
RECURSIVE SplitComma(_)
SplitComma(s) ==
    IF \E k \in 1..Len(s) : s[k] = Comma
    THEN LET k == CHOOSE j \in 1..Len(s) :
                      s[j] = Comma /\ \A i \in 1..(j - 1) : s[i] # Comma
         IN <<SubSeq(s, 1, k - 1)>> \o SplitComma(SubSeq(s, k + 1, Len(s)))
    ELSE <<s>>

HasComma(s) == \E k \in 1..Len(s) : s[k] = Comma

\* One hexadecimal digit, or -1
HexDigit(c) ==
    IF c >= 48 /\ c <= 57 THEN c - 48
    ELSE IF c >= 97 /\ c <= 102 THEN c - 87
    ELSE IF c >= 65 /\ c <= 70 THEN c - 55
    ELSE -1

RECURSIVE HexNat(_)
HexNat(s) == IF s = <<>> THEN 0
             ELSE 16 * HexNat(SubSeq(s, 1, Len(s) - 1)) + HexDigit(s[Len(s)])

\* re.match("[+-]?[0-9a-f]+$", args, re.IGNORECASE)
IsHex(args) ==
    LET digits == IF args # <<>> /\ (args[1] = Plus \/ args[1] = Minus)
                  THEN Tail(args) ELSE args
    IN digits # <<>> /\ \A k \in 1..Len(digits) : HexDigit(digits[k]) >= 0

\* int(args, 16)
HexInt(args) ==
    IF args[1] = Minus THEN 0 - HexNat(Tail(args))
    ELSE IF args[1] = Plus THEN HexNat(Tail(args))
    ELSE HexNat(args)

StrValue(s) == [kind |-> "str", parts |-> <<s>>, num |-> 0]
TupleValue(s) == [kind |-> "tuple", parts |-> SplitComma(s), num |-> 0]
IntValue(n) == [kind |-> "int", parts |-> <<>>, num |-> n]

\* iscp_to_command: the first zone that knows the three-character opcode decides
IscpToCommand(iscp_message) ==
    LET command == Slice(iscp_message, 0, 3)
        args == SubSeq(iscp_message, 4, Len(iscp_message))
        knows(z) == \E c \in COMMANDS[z].cmds : c.op = command
    IN IF \E z \in 1..Len(COMMANDS) : knows(z)
       THEN LET z == CHOOSE y \in 1..Len(COMMANDS) :
                         knows(y) /\ \A x \in 1..(y - 1) : ~knows(x)
                cmd == CHOOSE c \in COMMANDS[z].cmds : c.op = command
                value ==
                    IF \E v \in cmd.values : v.wire = args
                    THEN LET v == CHOOSE w \in cmd.values : w.wire = args
                         IN IF HasComma(v.name) THEN TupleValue(v.name)
                            ELSE StrValue(v.name)
                    ELSE IF IsHex(args) THEN IntValue(HexInt(args))
                    ELSE IF HasComma(args) THEN TupleValue(args)
                    ELSE StrValue(args)
            IN [ok |-> TRUE,
                msg |-> [zone |-> COMMANDS[z].zone, name |-> cmd.name, value |-> value]]
       ELSE [ok |-> FALSE, msg |-> NoMsg]

\* The try block of _assemble_buffer: data.decode(), ISCPMessage.parse, iscp_to_command
DecodePayload(data) ==
    IF ~Utf8Ok(data) THEN [ok |-> FALSE, msg |-> NoMsg]
    ELSE LET p == ISCPParse(data)
         IN IF ~p.ok THEN [ok |-> FALSE, msg |-> NoMsg]
            ELSE IscpToCommand(p.text)

----------------------------------------------------------------------------
(* Python values and text, as the translator handles them *)

Space == 32
Dot == 46
Colon == 58
Equals == 61

\* An argument of a call: None, a str, a list of str, or an int
None == [type |-> "None", str |-> <<>>, list |-> <<>>, int |-> 0]
Str(s) == [type |-> "str", str |-> s, list |-> <<>>, int |-> 0]
List(l) == [type |-> "list", str |-> <<>>, list |-> l, int |-> 0]
IntArg(n) == [type |-> "int", str |-> <<>>, list |-> <<>>, int |-> n]

\* What a call gives its caller: the text returned, or the exception raised
Returns(text) == [err |-> "none", text |-> text]
Raises(err) == [err |-> err, text |-> <<>>]

\* The characters str.strip() removes
IsSpace(c) == c \in {9, 10, 11, 12, 13, 28, 29, 30, 31, 32, 133, 160}

RECURSIVE LStrip(_)
LStrip(s) == IF s # <<>> /\ IsSpace(Head(s)) THEN LStrip(Tail(s)) ELSE s
RECURSIVE RStrip(_)
RStrip(s) == IF s # <<>> /\ IsSpace(s[Len(s)]) THEN RStrip(SubSeq(s, 1, Len(s) - 1))
             ELSE s
\* str.strip()
Strip(s) == RStrip(LStrip(s))
\* str.lower(), on the letters A-Z
Lower(s) == [k \in 1..Len(s) |-> IF s[k] >= 65 /\ s[k] <= 90 THEN s[k] + 32 ELSE s[k]]

\* command_to_iscp: norm = lambda s: s.strip().lower()
Norm(s) == Lower(Strip(s))

NormAll(l) == [k \in 1..Len(l) |-> Norm(l[k])]

HasAny(s, seps) == \E k \in 1..Len(s) : s[k] \in seps
FirstOf(s, seps) == CHOOSE k \in 1..Len(s) :
                        s[k] \in seps /\ \A j \in 1..(k - 1) : s[j] \notin seps

\* re.split(r"[...]", s): the parts between the separators, empty ones included
RECURSIVE ReSplit(_, _)
ReSplit(s, seps) ==
    IF HasAny(s, seps)
    THEN <<SubSeq(s, 1, FirstOf(s, seps) - 1)>>
         \o ReSplit(SubSeq(s, FirstOf(s, seps) + 1, Len(s)), seps)
    ELSE <<s>>

\* re.split(r"[...]", s, 1): split at the first separator only
ReSplitOnce(s, seps) ==
    IF HasAny(s, seps)
    THEN <<SubSeq(s, 1, FirstOf(s, seps) - 1), SubSeq(s, FirstOf(s, seps) + 1, Len(s))>>
    ELSE <<s>>

\* str.isdigit(), on ASCII
IsDigit(s) == s # <<>> /\ \A k \in 1..Len(s) : s[k] >= 48 /\ s[k] <= 57

\* int(s) of a string of digits
RECURSIVE DecNat(_)
DecNat(s) == IF s = <<>> THEN 0
             ELSE 10 * DecNat(SubSeq(s, 1, Len(s) - 1)) + (s[Len(s)] - 48)

\* One digit of hex(n).upper()
HexChar(d) == IF d < 10 THEN 48 + d ELSE 55 + d

\* hex(n)[2:].upper()
RECURSIVE HexUpper(_)
HexUpper(n) == IF n < 16 THEN <<HexChar(n)>>
               ELSE HexUpper(n \div 16) \o <<HexChar(n % 16)>>

\* hex(n)[2:].zfill(2).upper()
Hex2(n) == IF n < 16 THEN <<48>> \o HexUpper(n) ELSE HexUpper(n)

----------------------------------------------------------------------------
(* The packet codec on text that need not be ASCII *)

\* str.encode("utf-8"), for characters below U+0800
RECURSIVE Utf8Encode(_)
Utf8Encode(s) ==
    IF s = <<>> THEN <<>>
    ELSE (IF Head(s) < 128 THEN <<Head(s)>>
          ELSE <<192 + (Head(s) \div 64), 128 + (Head(s) % 64)>>)
         \o Utf8Encode(Tail(s))

\* bytes.decode(): one- and two-byte sequences; anything else raises
RECURSIVE Utf8Decode(_, _)
Utf8Decode(b, acc) ==
    IF b = <<>> THEN Returns(acc)
    ELSE IF b[1] < 128 THEN Utf8Decode(Tail(b), Append(acc, b[1]))
    ELSE IF b[1] >= 194 /\ b[1] <= 223 /\ Len(b) >= 2 /\ b[2] >= 128 /\ b[2] <= 191
    THEN Utf8Decode(Tail(Tail(b)), Append(acc, (b[1] - 192) * 64 + (b[2] - 128)))
    ELSE Raises("UnicodeDecodeError")

\* A message that ends as the device's messages do: EOF, then CR
ISCPMessageStrEOF(data) == <<Bang, One>> \o data \o <<EOF, CR>>

\* ISCPMessage.__str__
ISCPMessageStr(data) == <<Bang, One>> \o data \o <<CR>>

\* command_to_packet: eISCPPacket(ISCPMessage(command)).get_raw(); data_size is
\* len() of the str
CommandToPacket(command) ==
    PackHeader(Magic, 16, Len(ISCPMessageStr(command)))
        \o Utf8Encode(ISCPMessageStr(command))

\* eISCPPacket.parse
EISCPParse(bytes) ==
    LET h == ParseHeader(Slice(bytes, 0, 16))
    IN IF ~h.ok THEN Raises("AssertionError")
       ELSE LET data == Utf8Decode(Slice(bytes, 16, 16 + h.data_size), <<>>)
            IN IF data.err # "none" THEN data
               ELSE IF Len(data.text) # h.data_size THEN Raises("AssertionError")
               ELSE data

\* ISCPMessage.parse, as a call that returns or raises
ISCPMessageParse(data) ==
    IF ISCPParse(data).ok THEN Returns(ISCPParse(data).text)
    ELSE Raises("AssertionError")

\* eISCPPacket.parse, then ISCPMessage.parse
ParsePacket(bytes) ==
    IF EISCPParse(bytes).err # "none" THEN EISCPParse(bytes)
    ELSE ISCPMessageParse(EISCPParse(bytes).text)

----------------------------------------------------------------------------
(* The registry as command_to_iscp reads it (pyeiscp.commands): the zones  *)
(* of COMMANDS by their text, COMMAND_MAPPINGS from a command's name to    *)
(* its opcode, VALUE_MAPPINGS from an argument to its wire value, where a  *)
(* key is an alias or a ValueRange(start, end).                            *)

Main == <<109, 97, 105, 110>>            \* "main"
Zone2 == <<122, 111, 110, 101, 50>>      \* "zone2"
Power == <<112, 111, 119, 101, 114>>     \* "power"
Volume == <<118, 111, 108, 117, 109, 101>> \* "volume"
On == <<111, 110>>                       \* "on"
Off == <<111, 102, 102>>                 \* "off"

ZONES == {[text |-> Main, zone |-> "main"], [text |-> Zone2, zone |-> "zone2"]}

ZONE_MAPPINGS == {}

COMMAND_MAPPINGS ==
    {[zone |-> "main", name |-> Power, op |-> PWR],
     [zone |-> "main", name |-> Volume, op |-> MVL],
     [zone |-> "zone2", name |-> Power, op |-> ZPW]}

NoRange == <<>>
Zero == <<48>>                           \* "0", an alias that is also a number
VALUE_MAPPINGS ==
    {[zone |-> "main", op |-> PWR, alias |-> On, range |-> NoRange, wire |-> <<48, 49>>],
     [zone |-> "main", op |-> PWR, alias |-> Off, range |-> NoRange, wire |-> <<48, 48>>],
     [zone |-> "main", op |-> MVL, alias |-> <<117, 112>>, range |-> NoRange,
      wire |-> <<85, 80>>],
     [zone |-> "main", op |-> MVL, alias |-> Zero, range |-> NoRange,
      wire |-> <<77, 73, 78>>],
     [zone |-> "main", op |-> MVL, alias |-> <<>>, range |-> <<0, 100>>, wire |-> <<>>],
     [zone |-> "zone2", op |-> ZPW, alias |-> On, range |-> NoRange, wire |-> <<48, 49>>]}

\* ValueRange.__contains__: value in tuple(range(start, end))
InValueRange(n, range) == range # NoRange /\ n >= range[1] /\ n < range[2]

\* `zone in commands.COMMANDS`
IsZone(zone) == zone.type = "str" /\ \E z \in ZONES : z.text = zone.str

\* commands.ZONE_MAPPINGS.get(zone, zone), as the key of COMMANDS it names
ZoneGroup(zone) ==
    IF \E m \in ZONE_MAPPINGS : m.text = zone.str
    THEN (CHOOSE m \in ZONE_MAPPINGS : m.text = zone.str).zone
    ELSE (CHOOSE z \in ZONES : z.text = zone.str).zone

\* The opcodes of COMMANDS[group]
GroupOps(group) ==
    UNION {{c.op : c \in COMMANDS[k].cmds} : k \in {j \in 1..Len(COMMANDS) :
                                                     COMMANDS[j].zone = group}}

\* commands.COMMAND_MAPPINGS[group].get(command, command)
CommandPrefix(group, command) ==
    IF \E m \in COMMAND_MAPPINGS : m.zone = group /\ m.name = command
    THEN (CHOOSE m \in COMMAND_MAPPINGS : m.zone = group /\ m.name = command).op
    ELSE command

\* arguments[0]: the first item of a list, the first character of a str
FirstArgument(arguments) ==
    CASE arguments.type = "list" ->
            IF arguments.list = <<>> THEN Raises("IndexError")
            ELSE Returns(arguments.list[1])
      [] arguments.type = "str" ->
            IF arguments.str = <<>> THEN Raises("IndexError")
            ELSE Returns(<<arguments.str[1]>>)
      [] OTHER -> Raises("TypeError")

\* A resolution that tries the ValueRanges before the aliases
ResolveArgumentRangeFirst(group, prefix, argument) ==
    LET table == {v \in VALUE_MAPPINGS : v.zone = group /\ v.op = prefix}
    IN IF IsDigit(argument)
          /\ \E v \in table : InValueRange(DecNat(argument), v.range)
       THEN Returns(Hex2(DecNat(argument)))
       ELSE IF \E v \in table : v.range = NoRange /\ v.alias = argument
       THEN Returns((CHOOSE v \in table : v.range = NoRange /\ v.alias = argument).wire)
       ELSE Raises("ValueError")

\* The argument's wire value: an alias of VALUE_MAPPINGS[group][prefix], else a
\* number inside one of its ValueRanges, else ValueError
ResolveArgument(group, prefix, argument) ==
    LET table == {v \in VALUE_MAPPINGS : v.zone = group /\ v.op = prefix}
    IN IF \E v \in table : v.range = NoRange /\ v.alias = argument
       THEN Returns((CHOOSE v \in table : v.range = NoRange /\ v.alias = argument).wire)
       ELSE IF IsDigit(argument)
               /\ \E v \in table : InValueRange(DecNat(argument), v.range)
       THEN Returns(Hex2(DecNat(argument)))
       ELSE Raises("ValueError")

\* command_to_iscp from `group = ...` on: zone, command and arguments are known
Lookup(zone, command, arguments) ==
    IF ~IsZone(zone) THEN Raises("ValueError")
    ELSE LET group == ZoneGroup(zone)
             prefix == CommandPrefix(group, command)
         IN IF prefix \notin GroupOps(group) THEN Raises("ValueError")
            ELSE LET argument == FirstArgument(arguments)
                 IN IF argument.err # "none" THEN argument
                    ELSE LET value == ResolveArgument(group, prefix, argument.text)
                         IN IF value.err # "none" THEN value
                            ELSE Returns(prefix \o value.text)

\* command_to_iscp where the text holds ":" or "="
ParseWithSeparator(command) ==
    LET halves == ReSplitOnce(command, {Colon, Equals})
        parts == NormAll(ReSplit(halves[1], {Dot, Space}))
        arguments == NormAll(ReSplit(halves[2], {Space, Comma}))
    IN IF Len(parts) = 2
       THEN Lookup(Str(parts[1]), parts[2], List(arguments))
       ELSE Lookup(Str(Main), parts[1], List(arguments))

\* command_to_iscp where the text holds neither: `arguments = parts[3:]`
ParseBySpaces(command) ==
    LET parts == NormAll(ReSplit(command, {Dot, Space}))
    IN IF Len(parts) >= 3
       THEN Lookup(Str(parts[1]), parts[2], List(SubSeq(parts, 4, Len(parts))))
       ELSE IF Len(parts) = 2
       THEN Lookup(Str(Main), parts[1], List(SubSeq(parts, 2, 2)))
       ELSE Raises("ValueError")

\* command_to_iscp(command, arguments, zone): the text is parsed only when
\* neither arguments nor zone is given
CommandToIscp(command, arguments, zone) ==
    IF arguments.type = "None" /\ zone.type = "None"
    THEN IF HasAny(command, {Colon, Equals})
         THEN ParseWithSeparator(command)
         ELSE ParseBySpaces(command)
    ELSE Lookup(zone, command, arguments)

----------------------------------------------------------------------------
(* What the device sends: packets of a few kinds, as the bytes on the wire *)

Kinds == {"pwr_on", "vol50", "noeof", "unknown", "badmagic", "badsize"}
ValidKinds == {"pwr_on", "vol50"}
CorruptKinds == {"noeof", "unknown"}
BadHeaderKinds == {"badmagic", "badsize"}

Payload(kind) ==
    CASE kind = "pwr_on"  -> <<Bang, One>> \o PWR \o <<48, 49>> \o <<EOF, CR, LF>>
      [] kind = "vol50"   -> <<Bang, One>> \o MVL \o <<51, 50>> \o <<EOF>>
      [] kind = "noeof"   -> <<Bang, One>> \o PWR \o <<48, 49>> \o <<CR>>
      [] kind = "unknown" -> <<Bang, One>> \o <<88, 88, 88>> \o <<EOF>>
      [] OTHER            -> <<Bang, One>> \o PWR \o <<EOF>>

PacketBytes(kind) ==
    CASE kind = "badmagic" -> PackHeader(<<88, 83, 67, 80>>, 16, Len(Payload(kind)))
      [] kind = "badsize"  -> PackHeader(Magic, 17, Len(Payload(kind)))
      [] OTHER             -> PackHeader(Magic, 16, Len(Payload(kind)))
    \o Payload(kind)

RECURSIVE StreamBytes(_)
StreamBytes(s) == IF s = <<>> THEN <<>> ELSE PacketBytes(Head(s)) \o StreamBytes(Tail(s))

\* The message a valid packet of this kind carries
KindMsg(kind) ==
    IF kind = "pwr_on"
    THEN [zone |-> "main", name |-> "system-power", value |-> StrValue(<<111, 110>>)]
    ELSE [zone |-> "main", name |-> "master-volume", value |-> IntValue(50)]

\* The longest packet, and so the longest stream, in bytes
MaxChunk == 26 * MaxPackets

Streams(n) ==
    {s \in UNION {[1..k -> Kinds] : k \in 0..n} :
        Cardinality({k \in 1..Len(s) : s[k] \notin ValidKinds}) <= MaxBad}

\* How many packets of stream s lie completely within its first p bytes
RECURSIVE Complete(_, _)
Complete(s, p) ==
    IF s = <<>> \/ Len(PacketBytes(Head(s))) > p THEN 0
    ELSE 1 + Complete(Tail(s), p - Len(PacketBytes(Head(s))))

----------------------------------------------------------------------------
(* AVR: the protocol handler *)

\* _assemble_buffer on buffer b, with protocol.transport present and msgs the
\* update callbacks handed to call_soon so far: the buffer it leaves, the
\* callbacks, and whether an exception left it.  Every level pauses reading on
\* entry and resumes it as its last statement, so reading ends paused exactly
\* when an exception unwinds the calls.
RECURSIVE Assemble(_, _)
Assemble(b, msgs) ==
    IF Len(b) >= 16
    THEN LET h == ParseHeader(SubSeq(b, 1, 16))
             size == h.data_size
         IN IF ~h.ok
            THEN [buffer |-> b, msgs |-> msgs, raised |-> TRUE]
            ELSE IF Len(b) - 16 >= size
            THEN LET data == SubSeq(b, 17, 16 + size)
                     d == DecodePayload(data)
                     rest == SubSeq(b, 16 + size + 1, Len(b))
                 IN IF d.ok
                    THEN IF Len(rest) > 0
                         THEN Assemble(rest, Append(msgs, d.msg))
                         ELSE [buffer |-> rest, msgs |-> Append(msgs, d.msg),
                               raised |-> FALSE]
                    ELSE IF Len(rest) > 0
                         THEN Assemble(rest, msgs)
                         ELSE [buffer |-> rest, msgs |-> msgs, raised |-> FALSE]
            ELSE [buffer |-> b, msgs |-> msgs, raised |-> FALSE]
    ELSE [buffer |-> b, msgs |-> msgs, raised |-> FALSE]

\* An _assemble_buffer that takes one packet and leaves the rest for the next call
AssembleOnce(b) ==
    IF Len(b) >= 16
    THEN LET h == ParseHeader(SubSeq(b, 1, 16))
             size == h.data_size
         IN IF ~h.ok
            THEN [buffer |-> b, msgs |-> <<>>, raised |-> TRUE]
            ELSE IF Len(b) - 16 >= size
            THEN LET d == DecodePayload(SubSeq(b, 17, 16 + size))
                 IN [buffer |-> SubSeq(b, 16 + size + 1, Len(b)),
                     msgs |-> IF d.ok THEN <<d.msg>> ELSE <<>>,
                     raised |-> FALSE]
            ELSE [buffer |-> b, msgs |-> <<>>, raised |-> FALSE]
    ELSE [buffer |-> b, msgs |-> <<>>, raised |-> FALSE]

AssembleBuffer(b) == Assemble(b, <<>>)

RECURSIVE UpdateCalls(_)
UpdateCalls(msgs) ==
    IF msgs = <<>> THEN <<>>
    ELSE <<Callback("update_cb", 0, Head(msgs))>> \o UpdateCalls(Tail(msgs))

\* AVR.data_received with a chunk read from transport t.  With no
\* protocol.transport the first statement of _assemble_buffer raises.  An
\* exception that leaves data_received is a fatal error to the event loop, which
\* closes t and schedules connection_lost.
Received(t, chunk) ==
    \E r \in {IF transport = 0
              THEN [buffer |-> buffer \o chunk, msgs |-> <<>>, raised |-> TRUE]
              ELSE AssembleBuffer(buffer \o chunk)} :
        /\ buffer' = r.buffer
        /\ ready' = ready \o UpdateCalls(r.msgs)
                          \o (IF r.raised THEN <<Callback("connection_lost", t, NoMsg)>>
                              ELSE <<>>)
        /\ open' = IF r.raised THEN open \ {t} ELSE open
        /\ paused' = IF transport = 0 THEN paused
                     ELSE IF r.raised THEN paused \cup {transport}
                     ELSE paused \ {transport}

\* The device's next n bytes reach AVR.data_received
DataReceived(t, n) ==
    /\ t \in open \ paused
    /\ TakesEvent
    /\ \E bytes \in {StreamBytes(stream)} :
        /\ n \in 1..(Len(bytes) - pos)
        /\ Received(t, SubSeq(bytes, pos + 1, pos + n))
    /\ delivered' = delivered \o SubSeq(stream, Complete(stream, pos) + 1,
                                        Complete(stream, pos + n))
    /\ pos' = pos + n
    /\ UNCHANGED <<cfg, phase, retry_interval, closing, halted, transport, loops,
                   stream, budget, sessions, updates, aligned, failures, resumed, severed>>
    /\ UNCHANGED <<sendVars, discVars, codecVars>>

\* create_connection succeeds: the event loop makes transport t, calls
\* AVR.connection_made and wakes the coroutine; the device will send the packets
\* s on this session
ConnectSucceed(i, s) ==
    /\ loops[i].pc = "connecting"
    /\ FreeTransports # {}
    /\ TakesEvent
    /\ Len(s) <= budget
    /\ s # <<>> => sessions < MaxSessions
    /\ sessions' = IF s # <<>> THEN sessions + 1 ELSE sessions
    /\ transport' = NewTransport
    /\ open' = open \cup {NewTransport}
    /\ ready' = ready \o <<Callback("connect_cb", 0, NoMsg),
                             Callback("reconnect", i, NoMsg)>>
    /\ loops' = [loops EXCEPT ![i].pc = "established"]
    /\ stream' = s
    /\ pos' = 0
    /\ budget' = budget - Len(s)
    /\ aligned' = (aligned /\ buffer = <<>>)
    /\ paused' = paused \ {NewTransport}
    /\ UNCHANGED <<cfg, phase, retry_interval, closing, halted, buffer,
                   delivered, updates, failures, resumed, severed>>
    /\ UNCHANGED <<sendVars, discVars, codecVars>>

\* The peer or the network ends transport t: the event loop schedules connection_lost
PeerLoss(t) ==
    /\ t \in open
    /\ TakesEvent
    /\ open' = open \ {t}
    /\ paused' = paused \ {t}
    /\ ready' = Append(ready, Callback("connection_lost", t, NoMsg))
    /\ UNCHANGED <<cfg, phase, retry_interval, closing, halted, transport, loops,
                   failures, resumed, severed>>
    /\ UNCHANGED dataVars
    /\ UNCHANGED <<sendVars, discVars, codecVars>>

\* AVR.connection_lost
ConnectionLost ==
    /\ ready # <<>>
    /\ Head(ready).cb = "connection_lost"
    /\ transport' = 0
    /\ ready' = Append(Tail(ready), Callback("disconnect_cb", 0, NoMsg))
    /\ UNCHANGED <<cfg, phase, retry_interval, closing, halted, open, paused, loops,
                   failures, resumed, severed>>
    /\ UNCHANGED dataVars
    /\ UNCHANGED <<sendVars, discVars, codecVars>>

\* A _disconnect_callback that does not look at conn._closing
ReconnectsWhileClosing == cfg.auto_reconnect

\* Connection.create._disconnect_callback: `if conn._auto_reconnect and not conn._closing`
DisconnectSchedules == cfg.auto_reconnect /\ ~closing

\* A _disconnect_callback that notifies the observer only when it reconnects
DisconnectCallbackQuiet ==
    /\ ready # <<>>
    /\ Head(ready).cb = "disconnect_cb"
    /\ IF DisconnectSchedules
       THEN HasFreeSlot /\ loops' = Spawn("scheduled")
       ELSE UNCHANGED loops
    /\ ready' = Tail(ready) \o (IF DisconnectSchedules
                                THEN <<Callback("reconnect", FreeSlot, NoMsg)>>
                                ELSE <<>>)
                            \o (IF cfg.disconnect_callback /\ DisconnectSchedules
                                THEN <<Callback("on_disconnect", 0, NoMsg)>>
                                ELSE <<>>)
    /\ UNCHANGED <<cfg, phase, retry_interval, closing, halted, transport, open,
                   paused, failures, resumed, severed>>
    /\ UNCHANGED dataVars
    /\ UNCHANGED <<sendVars, discVars, codecVars>>

DisconnectCallback ==
    /\ ready # <<>>
    /\ Head(ready).cb = "disconnect_cb"
    /\ IF DisconnectSchedules
       THEN HasFreeSlot /\ loops' = Spawn("scheduled")
       ELSE UNCHANGED loops
    /\ ready' = Tail(ready) \o (IF DisconnectSchedules
                                THEN <<Callback("reconnect", FreeSlot, NoMsg)>>
                                ELSE <<>>)
                            \o (IF cfg.disconnect_callback
                                THEN <<Callback("on_disconnect", 0, NoMsg)>>
                                ELSE <<>>)
    /\ UNCHANGED <<cfg, phase, retry_interval, closing, halted, transport, open,
                   paused, failures, resumed, severed>>
    /\ UNCHANGED dataVars
    /\ UNCHANGED <<sendVars, discVars, codecVars>>

\* Connection.create._connect_callback
ConnectCallback ==
    /\ ready # <<>>
    /\ Head(ready).cb = "connect_cb"
    /\ ready' = Tail(ready) \o (IF cfg.connect_callback
                                THEN <<Callback("on_connect", 0, NoMsg)>>
                                ELSE <<>>)
    /\ UNCHANGED <<cfg, phase, retry_interval, closing, halted, transport, open,
                   paused, loops, failures, resumed, severed>>
    /\ UNCHANGED dataVars
    /\ UNCHANGED <<sendVars, discVars, codecVars>>

\* Connection.create._update_callback
UpdateCallback ==
    /\ ready # <<>>
    /\ Head(ready).cb = "update_cb"
    /\ ready' = Tail(ready) \o (IF cfg.update_callback
                                THEN <<Callback("on_update", 0, Head(ready).msg)>>
                                ELSE <<>>)
    /\ UNCHANGED <<cfg, phase, retry_interval, closing, halted, transport, open,
                   paused, loops, failures, resumed, severed>>
    /\ UNCHANGED <<buffer, stream, pos, budget, sessions, delivered, updates, aligned>>
    /\ UNCHANGED <<sendVars, discVars, codecVars>>

\* The caller's observers: update_callback, connect_callback, disconnect_callback
\* and discover()'s discovery_callback
Observer ==
    /\ ready # <<>>
    /\ Head(ready).cb \in {"on_update", "on_connect", "on_disconnect", "on_discovery"}
    /\ ready' = Tail(ready)
    /\ updates' = IF Head(ready).cb = "on_update"
                  THEN Append(updates, Head(ready).msg) ELSE updates
    /\ handed' = IF Head(ready).cb = "on_discovery" THEN handed + 1 ELSE handed
    /\ UNCHANGED <<cfg, phase, retry_interval, closing, halted, transport, open,
                   paused, loops, failures, resumed, severed>>
    /\ UNCHANGED <<buffer, stream, pos, budget, sessions, delivered, aligned>>
    /\ UNCHANGED <<sendVars, codecVars>>
    /\ UNCHANGED <<discovery_callback, endpoints, discovered, records>>

----------------------------------------------------------------------------
(* Connection.discover and DiscoveryProtocol: one protocol, with its own   *)
(* `discovered` list, per local interface                                  *)

\* Is identifier id in the list?
Listed(list, id) == \E k \in 1..Len(list) : list[k] = id

\* A datagram_received that calls the discovery observer itself
DatagramReceivedCalls(f, id) ==
    /\ f \in endpoints
    /\ TakesEvent
    /\ id \in Devices
    /\ ~Listed(discovered[f], id)
    /\ discovered' = [discovered EXCEPT ![f] = Append(@, id)]
    /\ records' = Append(records, id)
    /\ handed' = handed + 1
    /\ UNCHANGED <<discovery_callback, endpoints>>
    /\ UNCHANGED <<connVars, dataVars, sendVars, codecVars>>

\* DiscoveryProtocol.datagram_received on the endpoint of interface f: the reply
\* of device id.  (A datagram parse_info does not match changes nothing.)
DatagramReceived(f, id) ==
    /\ f \in endpoints
    /\ TakesEvent
    /\ id \in Devices
    /\ ~Listed(discovered[f], id)
    /\ discovered' = [discovered EXCEPT ![f] = Append(@, id)]
    /\ ready' = Append(ready, Callback("discovered_cb", id, NoMsg))
    /\ UNCHANGED <<discovery_callback, endpoints, records, handed>>
    /\ UNCHANGED <<cfg, phase, retry_interval, closing, halted, transport, open,
                   paused, loops, failures, resumed, severed>>
    /\ UNCHANGED <<dataVars, sendVars, codecVars>>

\* DiscoveryProtocol.async_close_delayed: the timeout is over, the endpoint closes
CloseDelayed(f) ==
    /\ f \in endpoints
    /\ TakesEvent
    /\ endpoints' = endpoints \ {f}
    /\ UNCHANGED <<discovery_callback, discovered, records, handed>>
    /\ UNCHANGED <<connVars, dataVars, sendVars, codecVars>>

\* A discovered_callback that creates its Connection with auto_connect=True
DiscoveredCallbackConnects ==
    /\ ready # <<>>
    /\ Head(ready).cb = "discovered_cb"
    /\ records' = Append(records, Head(ready).t)
    /\ IF phase = "constructed"
       THEN phase' = "connecting" /\ loops' = Spawn(ReconnectTop)
       ELSE UNCHANGED <<phase, loops>>
    /\ ready' = Tail(ready) \o (IF discovery_callback
                                THEN <<Callback("on_discovery", Head(ready).t, NoMsg)>>
                                ELSE <<>>)
    /\ UNCHANGED <<cfg, retry_interval, closing, halted, transport, open, paused,
                   failures, resumed, severed>>
    /\ UNCHANGED <<discovery_callback, endpoints, discovered, handed>>
    /\ UNCHANGED <<dataVars, sendVars, codecVars>>

\* discover().discovered_callback: `conn = await cls.create(..., auto_connect=False)`,
\* then `ensure_future(discovery_callback(conn))`.  The Connection of the model is
\* the one created first.
DiscoveredCallback ==
    /\ ready # <<>>
    /\ Head(ready).cb = "discovered_cb"
    /\ records' = Append(records, Head(ready).t)
    /\ phase' = IF phase = "constructed" THEN "created" ELSE phase
    /\ ready' = Tail(ready) \o (IF discovery_callback
                                THEN <<Callback("on_discovery", Head(ready).t, NoMsg)>>
                                ELSE <<>>)
    /\ UNCHANGED <<cfg, retry_interval, closing, halted, transport, open, paused,
                   loops, failures, resumed, severed>>
    /\ UNCHANGED <<discovery_callback, endpoints, discovered, handed>>
    /\ UNCHANGED <<dataVars, sendVars, codecVars>>

----------------------------------------------------------------------------
(* Connection: the calls of its user, possible once create() has returned *)

\* Connection.connect: `if not self.protocol.transport`
ConnectRuns == transport = 0

Connect ==
    /\ phase = "created"
    /\ TakesEvent
    /\ IF ConnectRuns
       THEN LoopRoom /\ loops' = Spawn(ReconnectTop)
       ELSE UNCHANGED loops
    /\ UNCHANGED <<cfg, phase, retry_interval, closing, halted, transport, open,
                   paused, ready, failures, resumed, severed>>
    /\ UNCHANGED dataVars
    /\ UNCHANGED <<sendVars, discVars, codecVars>>

\* `if self.protocol.transport: self.protocol.transport.close()`: closing an open
\* transport schedules connection_lost; closing one that is closing does nothing
TransportClose ==
    IF transport # 0 /\ transport \in open
    THEN /\ open' = open \ {transport}
         /\ paused' = paused \ {transport}
         /\ ready' = Append(ready, Callback("connection_lost", transport, NoMsg))
    ELSE UNCHANGED <<open, paused, ready>>

\* Connection.close
Close ==
    /\ phase = "created"
    /\ TakesEvent
    /\ closing' = TRUE
    /\ TransportClose
    /\ UNCHANGED <<cfg, phase, retry_interval, halted, transport, loops, failures,
                   resumed, severed>>
    /\ UNCHANGED dataVars
    /\ UNCHANGED <<sendVars, discVars, codecVars>>

\* Connection.halt
Halt ==
    /\ phase = "created"
    /\ TakesEvent
    /\ halted' = TRUE
    /\ resumed' = FALSE
    /\ severed' = (transport # 0 /\ transport \in open)
    /\ TransportClose
    /\ UNCHANGED <<cfg, phase, retry_interval, closing, transport, loops, failures>>
    /\ UNCHANGED dataVars
    /\ UNCHANGED <<sendVars, discVars, codecVars>>

\* Connection.resume
Resume ==
    /\ phase = "created"
    /\ TakesEvent
    /\ halted' = FALSE
    /\ resumed' = (resumed \/ halted)
    /\ UNCHANGED <<cfg, phase, retry_interval, closing, transport, open, paused,
                   loops, ready, failures, severed>>
    /\ UNCHANGED dataVars
    /\ UNCHANGED <<sendVars, discVars, codecVars>>

----------------------------------------------------------------------------
(* Connection.send and AVR.command *)

\* A send() of the history: the text, and how the call ended
SendRecord(msg, outcome) == [msg |-> msg, outcome |-> outcome]

\* AVR.command that lets the translator's ValueError through
CommandReraises(r) ==
    IF r.err # "none" THEN "raised"
    ELSE IF transport = 0 THEN "dropped"
    ELSE "written"

\* AVR.command, given what command_to_iscp did: a ValueError is logged and the
\* call returns; any other exception leaves the call; with no transport
\* `self.transport.write` raises inside the bare except
CommandOutcome(r) ==
    IF r.err = "ValueError" THEN "logged"
    ELSE IF r.err # "none" THEN "raised"
    ELSE IF transport = 0 THEN "dropped"
    ELSE "written"

\* Connection.send(msg): self.protocol.command(msg).  A write to a transport
\* that was closed is discarded by the transport.
Send(msg) ==
    /\ phase = "created"
    /\ TakesEvent
    /\ Len(sends) < MaxSends
    /\ \E r \in {CommandToIscp(msg, None, None)} :
        /\ sends' = Append(sends, SendRecord(msg, CommandOutcome(r)))
        /\ wire' = IF CommandOutcome(r) = "written" /\ transport \in open
                   THEN Append(wire, CommandToPacket(r.text))
                   ELSE wire
    /\ UNCHANGED connVars
    /\ UNCHANGED dataVars
    /\ UNCHANGED <<discVars, codecVars>>

----------------------------------------------------------------------------
(* Spec: the Connection under every call of its user, the device silent *)

\* The observers are all given or all left out
ConnConfigs == {c \in Configs : /\ c.update_callback = c.connect_callback
                                /\ c.connect_callback = c.disconnect_callback}

Init == \E c \in ConnConfigs : InitConn(c) /\ budget = 0 /\ InitIdle

Next ==
    \/ CreateConnect
    \/ ReconnectStart
    \/ \E i \in Loops : SleepWake(i)
    \/ \E i \in Loops : ConnectFail(i)
    \/ \E i \in Loops : ConnectSucceed(i, <<>>)
    \/ ReconnectReturn
    \/ \E t \in Transports : PeerLoss(t)
    \/ ConnectionLost
    \/ DisconnectCallback
    \/ ConnectCallback
    \/ Observer
    \/ Connect
    \/ Close
    \/ Halt
    \/ Resume

Spec == Init /\ [][Next]_vars

----------------------------------------------------------------------------
(* SpecData: the protocol handler under the bytes of the device, on a     *)
(* Connection that reconnects by itself and whose user only observes      *)

DataConfigs == {c \in Configs : /\ c.auto_connect /\ c.auto_reconnect
                                /\ c.update_callback /\ c.connect_callback
                                /\ c.disconnect_callback
                                /\ c.max_retry_interval = Rat(1)}

\* The device sends at least one packet on every session it accepts
SessionStreams == Streams(budget) \ {<<>>}

InitData == \E c \in DataConfigs : InitConn(c) /\ budget = MaxPackets /\ InitIdle

NextData ==
    \/ CreateConnect
    \/ ReconnectStart
    \/ \E i \in {j \in Loops : loops[j].pc = "connecting"} :
           \E s \in SessionStreams : ConnectSucceed(i, s)
    \/ ReconnectReturn
    \/ \E t \in Transports : PeerLoss(t)
    \/ \E t \in open : \E n \in 1..MaxChunk : DataReceived(t, n)
    \/ ConnectionLost
    \/ DisconnectCallback
    \/ ConnectCallback
    \/ UpdateCallback
    \/ Observer

SpecData == InitData /\ [][NextData]_vars

----------------------------------------------------------------------------
(* FairSpec: the Connection of Spec with the event loop's guarantees: it   *)
(* runs every callback it holds and fires every timer.  The user and the   *)
(* network owe nothing.                                                    *)

FairConfigs == {c \in ConnConfigs : c.max_retry_interval = Rat(1)}

InitFair == \E c \in FairConfigs : InitConn(c) /\ budget = 0 /\ InitIdle

LoopFairness ==
    /\ WF_vars(CreateConnect)
    /\ WF_vars(ReconnectStart)
    /\ WF_vars(ReconnectReturn)
    /\ WF_vars(ConnectionLost)
    /\ WF_vars(DisconnectCallback)
    /\ WF_vars(ConnectCallback)
    /\ WF_vars(Observer)
    /\ \A i \in Loops : WF_vars(SleepWake(i))

FairSpec == InitFair /\ [][Next]_vars /\ LoopFairness

\* AcceptSpec: FairSpec with a device that accepts: of the connect attempts made
\* again and again, one succeeds
DeviceAccepts == \A i \in Loops : SF_vars(ConnectSucceed(i, <<>>))

AcceptSpec == InitFair /\ [][Next]_vars /\ LoopFairness /\ DeviceAccepts

----------------------------------------------------------------------------
(* SpecSend: the Connection whose user sends commands, at any time after   *)
(* create() returned, while sessions come and go                           *)

Loud == <<108, 111, 117, 100>>           \* "loud"
Attic == <<97, 116, 116, 105, 99>>       \* "attic"
Bass == <<98, 97, 115, 115>>             \* "bass"

\* "power on", "main power on", "power=loud", "attic.power=on", "main.bass=on"
SendTexts ==
    {Power \o <<Space>> \o On,
     Main \o <<Space>> \o Power \o <<Space>> \o On,
     Power \o <<Equals>> \o Loud,
     Attic \o <<Dot>> \o Power \o <<Equals>> \o On,
     Main \o <<Dot>> \o Bass \o <<Equals>> \o On}

InitSend == \E c \in FairConfigs : InitConn(c) /\ budget = 0 /\ InitIdle

NextSend ==
    \/ CreateConnect
    \/ ReconnectStart
    \/ \E i \in Loops : ConnectSucceed(i, <<>>)
    \/ ReconnectReturn
    \/ \E t \in Transports : PeerLoss(t)
    \/ ConnectionLost
    \/ DisconnectCallback
    \/ ConnectCallback
    \/ Observer
    \/ Connect
    \/ Close
    \/ \E msg \in SendTexts : Send(msg)

SpecSend == InitSend /\ [][NextSend]_vars

----------------------------------------------------------------------------
(* SpecCodec: the translator and the packet codec, pure functions, applied *)
(* to every input of a bounded set                                         *)

MaxText == 3         \* characters of a text handed to command_to_packet

CapMain == <<77, 97, 105, 110>>          \* "Main"
Fifty == <<53, 48>>                      \* "50"
OneFifty == <<49, 53, 48>>               \* "150"
PaddedOn == <<32, 79, 110>>              \* " On"
Up == <<85, 112>>                        \* "Up"
EAcute == 233                            \* a character of two UTF-8 bytes

\* command_to_iscp(command, arguments, zone)
TranslateCall(command, arguments, zone) ==
    [fn |-> "command_to_iscp", command |-> command, arguments |-> arguments,
     zone |-> zone]
\* A call on one text: command_to_packet(text) ("command_to_packet"), and
\* eISCPPacket.parse(command_to_packet(text)), alone ("eiscp_parse") or
\* followed by ISCPMessage.parse ("parse_packet")
TextCall(fn, text) == [fn |-> fn, command |-> text, arguments |-> None, zone |-> None]

ZoneTexts == {Main, Zone2, Attic, CapMain}
CommandTexts == {Power, Volume, Bass}
ArgumentTexts ==
    {On, Off, Fifty, OneFifty, Loud, PaddedOn, On \o <<Comma>> \o Off, Zero, Up}

\* The free-text forms: [zone(. or space)]cmd(= or : or space)arg
FreeTexts ==
    {c \o <<a>> \o v : c \in CommandTexts, a \in {Equals, Colon, Space},
                       v \in ArgumentTexts}
    \cup {z \o <<d>> \o c \o <<a>> \o v :
              z \in ZoneTexts, d \in {Dot, Space}, c \in CommandTexts,
              a \in {Equals, Colon, Space}, v \in ArgumentTexts}

\* The pre-split calls
SplitArguments ==
    {None, IntArg(50), List(<<On>>), List(<<Fifty>>)}
    \cup {Str(v) : v \in {On, Off, Fifty, OneFifty, Loud, PaddedOn}}
SplitZones == {None} \cup {Str(z) : z \in ZoneTexts}

TranslateCalls ==
    {TranslateCall(t, None, None) : t \in FreeTexts}
    \cup {TranslateCall(c, a, z) : c \in CommandTexts, a \in SplitArguments,
                                   z \in SplitZones}

\* The texts of at most n characters over a few characters
RECURSIVE Texts(_)
Texts(n) ==
    IF n = 0 THEN {<<>>}
    ELSE Texts(n - 1)
         \cup {Append(t, c) : t \in Texts(n - 1), c \in {80, One, EOF, CR, EAcute}}

PacketTexts == Texts(MaxText) \cup {PWR \o <<48, 49>>, PWR \o <<48, 49, EOF>>}

CodecCalls ==
    TranslateCalls
    \cup {TextCall(fn, t) : fn \in {"command_to_packet", "eiscp_parse", "parse_packet"},
                            t \in PacketTexts}

InitCodec ==
    /\ \E c \in {d \in FairConfigs : ~d.auto_connect /\ ~d.auto_reconnect
                                      /\ ~d.update_callback} : InitConn(c)
    /\ budget = 0
    /\ InitNoSend
    /\ InitNoDiscovery
    /\ call \in CodecCalls
    /\ ret = NoRet

ApplyTranslate ==
    /\ call.fn = "command_to_iscp"
    /\ ret = NoRet
    /\ ret' = CommandToIscp(call.command, call.arguments, call.zone)
    /\ UNCHANGED <<connVars, dataVars, sendVars, discVars, call>>

\* command_to_packet(text): the bytes of the packet are the result
ApplyCommandToPacket ==
    /\ call.fn = "command_to_packet"
    /\ ret = NoRet
    /\ ret' = Returns(CommandToPacket(call.command))
    /\ UNCHANGED <<connVars, dataVars, sendVars, discVars, call>>

ApplyEISCPParse ==
    /\ call.fn = "eiscp_parse"
    /\ ret = NoRet
    /\ ret' = EISCPParse(CommandToPacket(call.command))
    /\ UNCHANGED <<connVars, dataVars, sendVars, discVars, call>>

ApplyParsePacket ==
    /\ call.fn = "parse_packet"
    /\ ret = NoRet
    /\ ret' = ParsePacket(CommandToPacket(call.command))
    /\ UNCHANGED <<connVars, dataVars, sendVars, discVars, call>>

NextCodec ==
    ApplyTranslate \/ ApplyCommandToPacket \/ ApplyEISCPParse \/ ApplyParsePacket

SpecCodec == InitCodec /\ [][NextCodec]_vars

----------------------------------------------------------------------------
(* SpecDiscover: one discover() run over every interface, and the          *)
(* Connection it hands to the discovery observer, which its user may then  *)
(* connect                                                                 *)

DiscoverConfigs == {c \in Configs : /\ ~c.auto_connect
                                    /\ c.update_callback /\ c.connect_callback
                                    /\ c.disconnect_callback
                                    /\ c.max_retry_interval = Rat(1)}

\* The device sends nothing, or one valid packet that arrives whole
DiscoverStreams == {s \in Streams(budget) : \A k \in 1..Len(s) : s[k] = "pwr_on"}

InitDiscover ==
    /\ \E c \in DiscoverConfigs : InitConn(c)
    /\ budget = 1
    /\ InitNoSend
    /\ InitNoCall
    /\ discovery_callback \in BOOLEAN
    /\ endpoints = Ifaces
    /\ discovered = [f \in Ifaces |-> <<>>]
    /\ records = <<>>
    /\ handed = 0

NextDiscover ==
    \/ \E f \in Ifaces : \E id \in Devices : DatagramReceived(f, id)
    \/ \E f \in Ifaces : CloseDelayed(f)
    \/ DiscoveredCallback
    \/ handed > 0 /\ Connect
    \/ ReconnectStart
    \/ \E i \in {j \in Loops : loops[j].pc = "connecting"} :
           \E s \in DiscoverStreams : ConnectSucceed(i, s)
    \/ ReconnectReturn
    \/ \E t \in Transports : PeerLoss(t)
    \/ \E t \in open : DataReceived(t, Len(StreamBytes(stream)) - pos)
    \/ ConnectionLost
    \/ DisconnectCallback
    \/ ConnectCallback
    \/ UpdateCallback
    \/ Observer

SpecDiscover == InitDiscover /\ [][NextDiscover]_vars

----------------------------------------------------------------------------
(* What the claims speak of *)

\* The messages of the callbacks cb waiting in the event loop, in queue order
RECURSIVE QueuedMsgs(_, _)
QueuedMsgs(q, cb) ==
    IF q = <<>> THEN <<>>
    ELSE (IF Head(q).cb = cb THEN <<Head(q).msg>> ELSE <<>>) \o QueuedMsgs(Tail(q), cb)

\* Every update notification scheduled so far, in the order the observer gets
\* them: those it has, those call_soon holds for it, those _update_callback
\* has yet to pass on
Notified == updates \o QueuedMsgs(ready, "on_update") \o QueuedMsgs(ready, "update_cb")

\* The messages of the valid packets among s, in order
RECURSIVE KindMsgs(_)
KindMsgs(s) ==
    IF s = <<>> THEN <<>>
    ELSE (IF Head(s) \in ValidKinds THEN <<KindMsg(Head(s))>> ELSE <<>>)
         \o KindMsgs(Tail(s))

AllValid(s) == \A k \in 1..Len(s) : s[k] \in ValidKinds

\* The bytes delivered of the packet the device is in the middle of
Partial ==
    SubSeq(StreamBytes(stream),
           Len(StreamBytes(SubSeq(stream, 1, Complete(stream, pos)))) + 1, pos)

\* No packet with a malformed header has reached the handler, in whole or in part
HeaderClean ==
    /\ \A k \in 1..Len(delivered) : delivered[k] \notin BadHeaderKinds
    /\ Partial # <<>> => stream[Complete(stream, pos) + 1] \notin BadHeaderKinds

\* The front of the buffer is a complete header that parse_header rejects
MalformedFront == Len(buffer) >= 16 /\ ~ParseHeader(SubSeq(buffer, 1, 16)).ok

\* Coroutine i awaits create_connection: a TCP connect attempt is under way
Attempting(i) == loops[i].pc = "connecting"
\* Coroutine i has yet to reach its next connect attempt
Pending(i) == loops[i].pc \in {"scheduled", "backoff", "haltpoll"}
\* This step starts a TCP connect attempt in coroutine i
StartsAttempt(i) == ~Attempting(i) /\ Attempting(i)'
\* This step hands a new _reconnect coroutine to ensure_future
Schedules(i) == loops[i].pc # "scheduled" /\ loops'[i].pc = "scheduled"

\* This step is a send() call; the record of the call this step makes
SendStep == Len(sends') > Len(sends)
LastSend == sends'[Len(sends')]
\* The translator rejects the text: unknown zone, unknown command, invalid argument
Untranslatable(msg) == CommandToIscp(msg, None, None).err = "ValueError"

\* How many Connections discover() has created or is about to create for device id
RecordsOf(id) ==
    Cardinality({k \in 1..Len(records) : records[k] = id})
    + Cardinality({k \in 1..Len(ready) :
                      ready[k].cb = "discovered_cb" /\ ready[k].t = id})
\* The Connection has no session, makes no attempt, and none is owed to a lost session
Unconnected ==
    /\ transport = 0
    /\ open = {}
    /\ \A i \in Loops : loops[i].pc = "none"
    /\ Queued(ready, "connection_lost") = 0
    /\ Queued(ready, "disconnect_cb") = 0
\* This step runs data_received, connection_made, connection_lost or datagram_received
HandlerStep ==
    \/ pos' > pos
    \/ transport' \notin {0, transport}
    \/ Queued(ready', "connection_lost") < Queued(ready, "connection_lost")
    \/ discovered' # discovered
\* The observers' callbacks
Observers == {"on_update", "on_connect", "on_disconnect", "on_discovery"}
ObserversQueued(q) == Cardinality({k \in 1..Len(q) : q[k].cb \in Observers})
\* This step runs an observer
ObserverRuns ==
    \/ updates' # updates
    \/ handed' # handed
    \/ ObserversQueued(ready') < ObserversQueued(ready)
\* This step runs connection_made; this step runs connection_lost
Establishes == transport' \notin {0, transport}
LosesTransport == Queued(ready', "connection_lost") < Queued(ready, "connection_lost")

----------------------------------------------------------------------------
(* The claims *)

C2_CorruptPayloadDropped ==
    /\ []((aligned /\ HeaderClean) =>
            (buffer = Partial /\ Notified = KindMsgs(delivered)))
    /\ [][(pos' > pos /\ ~MalformedFront') => open' = open]_vars

\* C2: a corrupted packet between two valid ones: two notifications, an empty
\* buffer, the transport open.
C2_TwoOfThreeNotified ==
    /\ aligned
    /\ delivered = <<"pwr_on", "noeof", "vol50">>
    /\ updates = <<KindMsg("pwr_on"), KindMsg("vol50")>>
    /\ buffer = <<>>
    /\ transport \in open

\* C3: a malformed header is never at the front of the buffer while the
\* handler's transport is open.
C3_NoMalformedFrontWhileOpen == ~(transport \in open /\ MalformedFront)

\* C4: once closing is set, no pending reconnect loop starts a connect attempt.
C4_NoAttemptAfterClose ==
    [][closing => \A i \in Loops : Pending(i) => ~Attempting(i)']_vars

\* C5: connect() with closing set changes nothing.
C5_ConnectWhileClosingNoOp == [][(closing /\ Connect) => UNCHANGED vars]_vars

\* C6: while halted, no connect attempt starts and no transport appears.
C6_HaltedStaysDisconnected ==
    [][(halted /\ halted') =>
          /\ \A i \in Loops : ~StartsAttempt(i)
          /\ open' \subseteq open
          /\ transport' \in {0, transport}]_vars

\* C7: after halt() closed an open transport and resume() followed, with
\* closing clear, a connect attempt follows (unless halt() or close() comes
\* first).
C7_ResumeLeadsToAttempt ==
    (resumed /\ severed /\ ~closing) ~>
        ((\E i \in Loops : Attempting(i)) \/ ~resumed \/ closing)

\* C8: after k >= 1 failed attempts since the last reset retry_interval is
\* min(max_retry_interval, 1.5^k), and with none it is 1; the sleep after a
\* failure lasts retry_interval; a step into or out of the halted poll leaves
\* retry_interval alone.
C8_BackoffFollowsFormula ==
    /\ [](failures >= 1 =>
            RatEq(retry_interval, RatMin(cfg.max_retry_interval, Pow15(failures))))
    /\ [](failures = 0 => retry_interval = Rat(1))
    /\ [][\A i \in Loops :
            (Attempting(i) /\ loops'[i].pc = "backoff")
                => loops'[i].interval = retry_interval']_vars
    /\ [][(\E i \in Loops : (loops[i].pc = "haltpoll") # (loops'[i].pc = "haltpoll"))
            => retry_interval' = retry_interval]_vars

\* C8: two failures under a cap of 2: the interval is 2 (not 2.25) and a
\* coroutine sleeps that long.
C8_CappedAfterTwoFailures ==
    /\ failures = 2
    /\ cfg.max_retry_interval = Rat(2)
    /\ retry_interval = Rat(2)
    /\ \E i \in Loops : loops[i].pc = "backoff" /\ loops[i].interval = Rat(2)

\* C9, as stated: retry_interval never exceeds max_retry_interval.
C9_RetryWithinMax == RatLeq(retry_interval, cfg.max_retry_interval)

\* C9, amended: retry_interval never exceeds the larger of 1 and
\* max_retry_interval, and no backoff sleep is longer than max_retry_interval.
C9_RetryWithinMaxOrOne ==
    /\ RatLeq(retry_interval, RatMax(Rat(1), cfg.max_retry_interval))
    /\ \A i \in Loops :
          loops[i].pc = "backoff" => RatLeq(loops[i].interval, cfg.max_retry_interval)

\* C9: three failures under a cap of 3: the interval sits at the cap.
C9_AtTheCap ==
    /\ cfg.max_retry_interval = Rat(3)
    /\ failures = 3
    /\ retry_interval = Rat(3)
    /\ \E i \in Loops : loops[i].pc = "backoff" /\ loops[i].interval = Rat(3)

\* C10: a _reconnect is scheduled only by the disconnect callback and only with
\* auto_reconnect set and closing clear; the disconnect callback run with
\* auto_reconnect set and closing clear schedules one; connection_lost itself
\* schedules none; and closing, once set, stays set.
C10_ReconnectIffAutoAndOpen ==
    /\ [][\A i \in Loops :
            Schedules(i) => /\ Queued(ready', "disconnect_cb") < Queued(ready, "disconnect_cb")
                            /\ cfg.auto_reconnect
                            /\ ~closing]_vars
    /\ [][(/\ Queued(ready', "disconnect_cb") < Queued(ready, "disconnect_cb")
           /\ cfg.auto_reconnect
           /\ ~closing) => \E i \in Loops : Schedules(i)]_vars
    /\ [][Queued(ready', "connection_lost") < Queued(ready, "connection_lost")
            => loops' = loops]_vars
    /\ [][closing => closing']_vars

\* C10: a transport was lost with auto_reconnect set and closing clear, and a
\* _reconnect waits for its first step.
C10_ReconnectScheduled ==
    /\ cfg.auto_reconnect
    /\ ~closing
    /\ transport = 0
    /\ \E i \in Loops : loops[i].pc = "scheduled"

\* C11: with auto_reconnect set and the Connection neither closing nor halted, a
\* _reconnect that sleeps after a failed attempt is followed by another attempt,
\* and a transport loss is followed by an established session when the device
\* accepts (unless close() or halt() comes first).
C11_ReconnectNeverGivesUp ==
    /\ \A i \in Loops :
          (cfg.auto_reconnect /\ ~closing /\ ~halted /\ loops[i].pc = "backoff")
              ~> ((\E j \in Loops : Attempting(j)) \/ closing \/ halted)
    /\ (cfg.auto_reconnect /\ ~closing /\ ~halted
            /\ Queued(ready, "connection_lost") > 0)
          ~> ((transport # 0 /\ transport \in open) \/ closing \/ halted)

\* C11: a session was lost, two attempts to get it back failed, and a third is
\* under way.
C11_AttemptAfterFailures ==
    /\ cfg.auto_reconnect
    /\ ~closing
    /\ ~halted
    /\ phase = "created"
    /\ transport = 0
    /\ failures >= 2
    /\ \E i \in Loops : Attempting(i)

\* C12: a send() with no transport writes nothing, queues nothing, starts no
\* connect attempt and changes nothing of the Connection, no exception reaches
\* its caller, and nothing is written later: the wire grows only in a send()
\* made while a transport is present.
C12_SendWithoutTransportDropped ==
    /\ [][(SendStep /\ transport = 0) =>
            /\ LastSend.outcome \in {"dropped", "logged"}
            /\ wire' = wire
            /\ UNCHANGED <<connVars, dataVars>>]_vars
    /\ [][wire' # wire => (SendStep /\ transport # 0)]_vars

\* C12, apart from the exception: a send() with no transport writes nothing and
\* changes nothing, and nothing is written later.
C12_NothingWrittenOrQueued ==
    /\ [][(SendStep /\ transport = 0) =>
            /\ LastSend.outcome \in {"dropped", "logged", "raised"}
            /\ wire' = wire
            /\ UNCHANGED <<connVars, dataVars>>]_vars
    /\ [][wire' # wire => (SendStep /\ transport # 0)]_vars

\* C13, as stated: a send() of a text the translator rejects raises the
\* translator's error to its caller, writes nothing and leaves the Connection
\* as it was.
C13_TranslatorErrorRaised ==
    [][(SendStep /\ Untranslatable(LastSend.msg)) =>
          /\ LastSend.outcome = "raised"
          /\ wire' = wire
          /\ UNCHANGED <<connVars, dataVars>>]_vars

\* C13, amended: a send() of a text the translator rejects returns to its caller
\* without an exception (the error is logged), writes nothing, schedules no
\* callback and leaves the Connection as it was.
C13_TranslatorErrorLogged ==
    [][(SendStep /\ Untranslatable(LastSend.msg)) =>
          /\ LastSend.outcome = "logged"
          /\ wire' = wire
          /\ UNCHANGED <<connVars, dataVars>>]_vars

\* C13: on an established session an invalid argument and an unknown zone were
\* sent: both calls returned, nothing is on the wire, the session is still there.
C13_TwoRejectedSends ==
    /\ transport # 0
    /\ transport \in open
    /\ sends = <<SendRecord(Power \o <<Equals>> \o Loud, "logged"),
                 SendRecord(Attic \o <<Dot>> \o Power \o <<Equals>> \o On, "logged")>>
    /\ wire = <<>>

\* C14, as stated: eISCPPacket.parse then ISCPMessage.parse applied to
\* command_to_packet(text) returns text.
C14_RoundTripReturnsText ==
    (call.fn = "parse_packet" /\ ret # NoRet) => ret = Returns(call.command)

\* C14, amended: eISCPPacket.parse applied to command_to_packet(text) returns
\* "!1" + text + CR when text is ASCII, and ISCPMessage.parse applied to that
\* never returns text: it raises, or returns text cut short.
C14_PacketRoundTripOnly ==
    /\ (call.fn = "eiscp_parse" /\ ret # NoRet /\ Utf8Ok(call.command))
          => ret = Returns(ISCPMessageStr(call.command))
    /\ (call.fn = "parse_packet" /\ ret # NoRet)
          => /\ ret # Returns(call.command)
             /\ ret.err = "none" => /\ Len(ret.text) < Len(call.command)
                                    /\ ret.text = SubSeq(call.command, 1, Len(ret.text))

\* C14: "PWR01" was encoded and parsed back: ISCPMessage.parse raised.
C14_PWR01Raises ==
    /\ call = TextCall("parse_packet", PWR \o <<48, 49>>)
    /\ ret = Raises("AssertionError")

\* C15: the pre-split call (command=c, arguments=a, zone=z) gives what the call
\* on the text "z.c=a" gives.
C15_PreSplitEqualsFreeText ==
    (/\ call.fn = "command_to_iscp"
     /\ ret # NoRet
     /\ call.arguments.type = "str"
     /\ call.zone.type = "str")
    => ret = CommandToIscp(call.zone.str \o <<Dot>> \o call.command \o <<Equals>>
                               \o call.arguments.str, None, None)

\* C16: the text "zone cmd arg" gives what "zone.cmd=arg" gives.
C16_SpaceFormEqualsDotForm ==
    (/\ call.fn = "command_to_iscp"
     /\ ret # NoRet
     /\ call.arguments.type = "None"
     /\ call.zone.type = "None"
     /\ ~HasAny(call.command, {Dot, Colon, Equals, Comma})
     /\ Len(ReSplit(call.command, {Space})) = 3)
    => LET parts == ReSplit(call.command, {Space})
       IN ret = CommandToIscp(parts[1] \o <<Dot>> \o parts[2] \o <<Equals>> \o parts[3],
                              None, None)

\* C17: within one discovery run a device identifier yields at most one
\* Connection, also when its replies arrive on two interfaces.
C17_OneRecordPerIdentifier == \A id \in Devices : RecordsOf(id) <= 1

\* C18: creating the Connection for a discovered device starts nothing; until
\* the discovery observer has it the Connection has no session and makes no
\* attempt; and from that state only connect() starts one.
C18_NoAttemptBeforeConnect ==
    /\ [][Len(records') > Len(records) =>
            (loops' = loops /\ transport' = transport /\ open' = open)]_vars
    /\ [](handed = 0 => Unconnected)
    /\ [][(Unconnected /\ ~Unconnected') => (handed > 0 /\ Connect)]_vars

\* C18: the discovery observer has the Connection of device 1, which has no
\* session and makes no attempt.
C18_HandedUnconnected ==
    /\ records = <<1>>
    /\ handed = 1
    /\ phase = "created"
    /\ Unconnected

\* C19: no step that runs data_received, connection_made, connection_lost or
\* datagram_received, and no step that changes the buffer, runs an observer; an
\* observer runs only as the callback at the head of the event loop's queue.
C19_ObserversDeferred ==
    /\ [][HandlerStep => ~ObserverRuns]_vars
    /\ [][buffer' # buffer => ~ObserverRuns]_vars
    /\ [][ObserverRuns => /\ ready # <<>>
                          /\ Head(ready).cb \in Observers
                          /\ ready' = Tail(ready)]_vars

\* C19: all four observers have run: discovery, connect, update, and the
\* disconnect observer is next in the queue.
C19_AllObserversRan ==
    /\ handed >= 1
    /\ updates = <<KindMsg("pwr_on")>>
    /\ transport = 0
    /\ ready # <<>>
    /\ Head(ready).cb = "on_disconnect"

\* C20: connection_made records the transport and schedules _connect_callback
\* once, and nothing else schedules it; _connect_callback notifies the connect
\* observer once; connection_lost clears the transport and schedules
\* _disconnect_callback once, and nothing else schedules it; _disconnect_callback
\* notifies the disconnect observer once, whether or not it schedules a
\* reconnect.
C20_NotifiedOncePerTransition ==
    /\ [][Establishes =>
            /\ transport' \in open'
            /\ Queued(ready', "connect_cb") = Queued(ready, "connect_cb") + 1]_vars
    /\ [][Queued(ready', "connect_cb") > Queued(ready, "connect_cb") => Establishes]_vars
    /\ [][Queued(ready', "connect_cb") < Queued(ready, "connect_cb") =>
            Queued(ready', "on_connect") = Queued(ready, "on_connect")
                + (IF cfg.connect_callback THEN 1 ELSE 0)]_vars
    /\ [][Queued(ready', "on_connect") > Queued(ready, "on_connect") =>
            Queued(ready', "connect_cb") = Queued(ready, "connect_cb") - 1]_vars
    /\ [][LosesTransport =>
            /\ transport' = 0
            /\ Queued(ready', "disconnect_cb") = Queued(ready, "disconnect_cb") + 1]_vars
    /\ [][Queued(ready', "disconnect_cb") > Queued(ready, "disconnect_cb")
            => LosesTransport]_vars
    /\ [][Queued(ready', "disconnect_cb") < Queued(ready, "disconnect_cb") =>
            Queued(ready', "on_disconnect") = Queued(ready, "on_disconnect")
                + (IF cfg.disconnect_callback THEN 1 ELSE 0)]_vars
    /\ [][Queued(ready', "on_disconnect") > Queued(ready, "on_disconnect") =>
            Queued(ready', "disconnect_cb") = Queued(ready, "disconnect_cb") - 1]_vars

\* C20: after close() the session was lost: the disconnect observer is notified
\* and no reconnect is scheduled.
C20_DisconnectNotifiedNoReconnect ==
    /\ closing
    /\ cfg.auto_reconnect
    /\ transport = 0
    /\ Queued(ready, "on_disconnect") = 1
    /\ \A i \in Loops : loops[i].pc = "none"

\* The arguments of one word, with no blank and no comma
PlainArguments == {On, Off, Fifty, OneFifty, Loud, Zero, Up}

\* The wire value an argument of a main-zone command has by alias, if any
AliasWires(op, v) ==
    {x.wire : x \in {y \in VALUE_MAPPINGS : /\ y.zone = "main"
                                             /\ y.op = op
                                             /\ y.range = NoRange
                                             /\ y.alias = Lower(v)}}

\* A ValueRange of the command covers the number the argument spells
RangeCovers(op, v) ==
    /\ IsDigit(v)
    /\ \E y \in VALUE_MAPPINGS : /\ y.zone = "main"
                                 /\ y.op = op
                                 /\ y.range # NoRange
                                 /\ DecNat(v) >= y.range[1]
                                 /\ DecNat(v) < y.range[2]

C22_DataSizeCountsPayloadBytes ==
    (call.fn = "command_to_packet" /\ ret # NoRet) =>
        /\ ret.err = "none"
        /\ Len(ret.text) >= 16
        /\ FromU32(SubSeq(ret.text, 9, 12)) = Len(ret.text) - 16

\* No complete packet at the front of b: b is shorter than a header, or shorter
\* than the header and the data_size the header declares
NoCompleteFront(b) == Len(b) < 16 \/ Len(b) < 16 + FromU32(SubSeq(b, 9, 12))

\* The bytes this step hands to data_received
Chunk == SubSeq(StreamBytes(stream), pos + 1, pos')

\* This step is a data_received call that returns
ReceivedReturns == pos' > pos /\ open' = open

\* b is what is left of a after some bytes at its front were taken
IsSuffix(b, a) == Len(b) <= Len(a) /\ b = SubSeq(a, Len(a) - Len(b) + 1, Len(a))

\* C23: a data_received call that returns leaves no complete packet at the
\* front of the buffer; what it leaves is the tail of the bytes it had, all of
\* them when they hold no complete packet; and the buffer changes in no other
\* step.
C23_NoCompletePacketLeft ==
    /\ [][ReceivedReturns => NoCompleteFront(buffer')]_vars
    /\ [][ReceivedReturns => IsSuffix(buffer', buffer \o Chunk)]_vars
    /\ [][(ReceivedReturns /\ NoCompleteFront(buffer \o Chunk))
            => buffer' = buffer \o Chunk]_vars
    /\ [][buffer' # buffer => pos' > pos]_vars

\* C23: two packets and more than the header of a third came in: both were
\* taken and notified, and the buffer holds the bytes of the third.
C23_TwoTakenOneKept ==
    /\ transport \in open
    /\ Len(stream) = 3
    /\ Len(delivered) = 2
    /\ Notified = KindMsgs(delivered)
    /\ Len(buffer) > 16
    /\ buffer = Partial
    /\ NoCompleteFront(buffer)

\* C24: once closing is set, every _reconnect coroutine comes to its end.
C24_LoopsEndAfterClose == closing ~> (\A i \in Loops : loops[i].pc = "none")

\* C25: at most one _reconnect coroutine is on its way to a connection, and so
\* at most one connect attempt is under way.
C25_OneReconnectLoop ==
    /\ Cardinality({i \in Loops : Pending(i) \/ Attempting(i)}) <= 1
    /\ Cardinality({i \in Loops : Attempting(i)}) <= 1

\* C26: every session begins with an empty buffer, whatever the session before
\* left in it, so the valid packets of the sessions give one update
\* notification each.
C26_SessionStartsAtItsFirstByte ==
    /\ aligned
    /\ AllValid(delivered) => Notified = KindMsgs(delivered)

\* C27: when a data_received call ends, by returning or by raising, reading on
\* the handler's transport is not left paused.
C27_ReadingResumedAfterReceive ==
    [][(pos' > pos /\ transport # 0) => transport \notin paused']_vars

====
